---- MODULE Spec2Model ----
\* Model of the Bingscape sync engine (src-tauri/src/lib.rs): the shared
\* AppState, the perform_sync cycle, the setup/scheduler code of run() and
\* the tauri commands.  Strings that the code inspects are sequences of
\* one-character strings; Option<T> is a sequence of length 0 (None) or 1.
EXTENDS Integers, Sequences, FiniteSets, TLC

\* ------------------------------------------------------------------ bounds
\* Each specification explores the program up to a scope: the number of sync
\* cycles (perform_sync calls) started, of one-hour sleeps that elapse and of
\* commands (other than SyncNow) invoked in one behaviour, and the outcomes
\* the environment may give: http (of a request), bodies (of the metadata
\* response), io (TRUE: a file, store or process operation succeeds) and
\* script (of osascript).
SyncCycles == 2          \* SpecSync
SyncTicks == 1
SyncCmds == 1
SettingsCmds == 2        \* SpecSettings
CommandCmds == 2         \* SpecCommands
TickCycles == 4          \* SpecTicks: the startup sync and a cycle per tick
TickTicks == 2
FullCycles == 2          \* Spec
FullTicks == 1
FullCmds == 1

\* ------------------------------------------------------------ option type
None == <<>>
Some(x) == <<x>>
IsSome(o) == Len(o) = 1

\* ------------------------------------------------------------- characters
Digits == {"0","1","2","3","4","5","6","7","8","9"}
Host == <<"h","t","t","p","s",":","/","/","w","w","w",".","b","i","n","g",".","c","o","m">>
UHDToken == <<"_","U","H","D",".","j","p","g">>
FHDToken == <<"_","1","9","2","0","x","1","0","8","0",".","j","p","g">>
JpgExt == <<".","j","p","g">>
IdKey == <<"i","d","=">>
OhrPrefix == <<"O","H","R",".">>
DefaultFilename == <<"b","i","n","g","_","w","a","l","l","p","a","p","e","r",".","j","p","g">>

\* The image paths the metadata endpoint may return (images[0].url).
RawPath1 == <<"/","t","h","?","i","d","=","O","H","R",".","L","l","a","m","a","_","1","9","2","0","x","1","0","8","0",".","j","p","g","&","r","f","=","x">>
RawPath2 == <<"/","a","z","/","F","o","o","_","1","3","6","6","x","7","6","8",".","j","p","g">>
RawPaths == {RawPath1, RawPath2}

\* a path with an id parameter, no OHR. prefix, no '&' and no resolution token
RawPath3 == <<"/","t","h","?","i","d","=","B","a","r",".","j","p","g">>

\* ------------------------------------------------------ string primitives
\* s has t at position i
HasAt(s, t, i) == /\ i >= 1
                  /\ i + Len(t) - 1 <= Len(s)
                  /\ \A k \in 1..Len(t) : s[i + k - 1] = t[k]

\* position of the first occurrence of t in s at or after i, 0 when none
RECURSIVE FindFrom(_, _, _)
FindFrom(s, t, i) == IF i + Len(t) - 1 > Len(s) THEN 0
                     ELSE IF HasAt(s, t, i) THEN i
                     ELSE FindFrom(s, t, i + 1)

\* number of consecutive digits of s starting at position i
RECURSIVE DigitRun(_, _)
DigitRun(s, i) == IF i <= Len(s) /\ s[i] \in Digits THEN 1 + DigitRun(s, i + 1) ELSE 0

\* length of the match of the regex _\d+x\d+\.jpg at position i, 0 when none
MatchLenAt(s, i) ==
    IF ~(i <= Len(s) /\ s[i] = "_") THEN 0
    ELSE LET d1 == DigitRun(s, i + 1)
             xp == i + 1 + d1
         IN IF d1 = 0 \/ ~(xp <= Len(s) /\ s[xp] = "x") THEN 0
            ELSE LET d2 == DigitRun(s, xp + 1)
                     ep == xp + 1 + d2
                 IN IF d2 = 0 \/ ~HasAt(s, JpgExt, ep) THEN 0
                    ELSE 1 + d1 + 1 + d2 + Len(JpgExt)

\* position of the leftmost match of the regex at or after i, 0 when none
RECURSIVE FindMatch(_, _)
FindMatch(s, i) == IF i > Len(s) THEN 0
                   ELSE IF MatchLenAt(s, i) > 0 THEN i
                   ELSE FindMatch(s, i + 1)

\* Regex::replace: the leftmost match replaced by tok, s itself when none
RegexReplace(s, tok) ==
    LET p == FindMatch(s, 1)
    IN IF p = 0 THEN s
       ELSE SubSeq(s, 1, p - 1) \o tok \o SubSeq(s, p + MatchLenAt(s, p), Len(s))

\* --------------------------------------------------------- image resolver
\* a resolver that rewrites to UHD whatever the resolution is
ModifiedPathAlwaysUHD(resolution, image_path) == RegexReplace(image_path, UHDToken)

\* lib.rs 182-192
ModifiedPath(resolution, image_path) ==
    IF resolution = "UHD" THEN RegexReplace(image_path, UHDToken)
    ELSE IF resolution = "1920x1080" THEN RegexReplace(image_path, FHDToken)
    ELSE image_path

\* lib.rs 194
ImageUrl(modified_path) == Host \o modified_path

\* split("id=").nth(1): the piece between the first and the second "id="
SplitIdNth1(s) ==
    LET p == FindFrom(s, IdKey, 1)
    IN IF p = 0 THEN None
       ELSE LET rest == SubSeq(s, p + Len(IdKey), Len(s))
                q == FindFrom(rest, IdKey, 1)
            IN Some(IF q = 0 THEN rest ELSE SubSeq(rest, 1, q - 1))

\* split('&').next(): the piece before the first '&'
SplitAmpFirst(s) ==
    LET q == FindFrom(s, <<"&">>, 1)
    IN IF q = 0 THEN s ELSE SubSeq(s, 1, q - 1)

\* strip_prefix("OHR.") with the fallback of lines 209-213
StripOhr(s) == IF HasAt(s, OhrPrefix, 1) THEN SubSeq(s, Len(OhrPrefix) + 1, Len(s)) ELSE s

\* the application cache directory, whatever the OS designates
CacheDirPath == <<"$APP_CACHE">>

\* lib.rs 220: cache_dir.join(filename)
SavePath(filename) == CacheDirPath \o <<"/">> \o filename

\* lib.rs 206-219
Filename(modified_path) ==
    LET id_param == SplitIdNth1(modified_path)
    IN IF IsSome(id_param) THEN StripOhr(SplitAmpFirst(id_param[1]))
       ELSE DefaultFilename


\* ------------------------------------------------------------------ state
VARIABLES
    auto_enabled,   \* AppState.auto_enabled (AtomicBool)
    apply_all,      \* AppState.apply_all (AtomicBool)
    resolution,     \* AppState.resolution (Mutex<String>), the protected value
    resLock,        \* holder of the resolution mutex
    last_status,    \* AppState.last_status (Mutex<SyncStatus>), the protected value
    statusLock,     \* holder of the last_status mutex
    store,          \* "app_settings" in the in-memory settings store
    disk,           \* "app_settings" in settings.json on disk
    platform,       \* target_os of the build
    cacheExists,    \* the application cache directory exists
    cacheFiles,     \* files of the cache directory: set of <<filename, bytes>>
    wallpaper,      \* the desktop picture: None or Some([path, all, bytes])
    clock,          \* Utc::now(), a counter that advances at each reading
    setup,          \* position of the setup closure of run()
    sched,          \* the scheduler task: position and the latched ticks
    ticks,          \* one-hour sleeps that have elapsed
    cyc,            \* the perform_sync calls, by cycle id
    nCycles,        \* cycles started so far
    cmd,            \* the command handlers in progress, by thread
    nCmds,          \* commands invoked so far
    scope           \* the scope of the exploration, never changed

vars == <<auto_enabled, apply_all, resolution, resLock, last_status, statusLock,
          store, disk, platform, cacheExists, cacheFiles, wallpaper, clock,
          setup, sched, ticks, cyc, nCycles, cmd, nCmds, scope>>

appVars == <<auto_enabled, apply_all, resolution>>
storeVars == <<store, disk>>
fsVars == <<cacheExists, cacheFiles, wallpaper>>
schedVars == <<setup, sched, ticks>>

Cycles == 1..scope.cycles
CmdThreads == 1..scope.cmds
NoHolder == <<>>
CycT(c) == <<"cycle", c>>
CmdT(j) == <<"cmd", j>>

\* the resolution strings the front end sends; anything that is neither
\* "UHD" nor "1920x1080" leaves the path as it is
Resolutions == {"UHD", "original"}

\* #[derive(Default)] SyncStatus, lib.rs 27-34
DefaultStatus == [last_url |-> None, last_saved_path |-> None, last_result |-> None,
                  last_error |-> None, last_run |-> None]

\* Result<T, String>
Ok(v) == [ok |-> TRUE, val |-> v]
Err(e) == [ok |-> FALSE, val |-> e]

\* AppSettings as a JSON value of the store; valid = FALSE is a value that
\* serde_json::from_value::<AppSettings> rejects
Settings(e, a, r) == [valid |-> TRUE, auto_enabled |-> e, apply_all |-> a, resolution |-> r]
Garbage == [valid |-> FALSE, auto_enabled |-> FALSE, apply_all |-> FALSE, resolution |-> ""]

\* what settings.json may hold when the process starts
InitStores == {None, Some(Garbage), Some(Settings(TRUE, TRUE, "1920x1080"))}

IdleCycle == [pc |-> "unused", trigger |-> "", apply_all |-> FALSE, born |-> 0,
              image_path |-> <<>>, image_url |-> <<>>, filename |-> <<>>, bytes |-> "",
              status |-> DefaultStatus, ret |-> None]

\* alone: every earlier command had returned when this one was invoked
IdleCmd == [op |-> "idle", pc |-> "idle", alone |-> FALSE, enabled |-> FALSE,
            apply_all |-> FALSE, resolution |-> "", ret |-> None]

\* the state after AppState::default() (lib.rs 250) and before the setup
\* closure runs, for a scope and for the environments the process may start in
Start(sc, stores, platforms, cacheDirs) ==
    /\ scope = sc
    /\ auto_enabled = FALSE
    /\ apply_all = FALSE
    /\ resolution = ""
    /\ resLock = NoHolder
    /\ last_status = DefaultStatus
    /\ statusLock = NoHolder
    /\ store \in stores
    /\ disk = store
    /\ platform \in platforms
    /\ cacheExists \in cacheDirs
    /\ cacheFiles = {}
    /\ wallpaper = None
    /\ clock = 1
    /\ setup = "load_settings"
    /\ sched = [pc |-> "off"]
    /\ ticks = 0
    /\ cyc = [c \in 1..sc.cycles |-> IdleCycle]
    /\ nCycles = 0
    /\ cmd = [j \in 1..sc.cmds |-> IdleCmd]
    /\ nCmds = 0

\* ------------------------------------------------------------ perform_sync
HttpFailures == {"timeout", "connect"}
HttpOutcomes == HttpFailures \cup {"ok", "bad_status"}

\* bodies of the metadata response: not JSON, JSON without images[0].url,
\* JSON with images[0].url
HtmlBody == [json |-> FALSE, url |-> None]
NoUrlBody == [json |-> TRUE, url |-> None]
MetaBodies == {HtmlBody, NoUrlBody} \cup {[json |-> TRUE, url |-> Some(p)] : p \in RawPaths}

\* lib.rs 166-178: send() fails on a timeout or a connection failure, json()
\* on a body that is not JSON, the field lookup on a missing field; the
\* HTTP status is not looked at
MetadataResult(net, body) ==
    IF net \in HttpFailures THEN Err(net)
    ELSE IF ~body.json THEN Err("decode")
    ELSE IF ~IsSome(body.url) THEN Err("Unexpected Bing API response")
    ELSE Ok(body.url[1])

\* lib.rs 222-227: send() and bytes(); the HTTP status is not looked at
DownloadResult(net) ==
    IF net \in HttpFailures THEN Err(net)
    ELSE Ok(IF net = "ok" THEN "image" ELSE "error_page")

\* where the caller of perform_sync goes on an Err: sync_wallpaper (55) and
\* the startup thread (342) only return or drop it, the scheduler's closure
\* (359-364) records it
AfterError(trigger) == IF trigger = "tick" THEN "record_failure_lock" ELSE "done"

\* a success record whose result string ignores the apply_all argument
SuccessRecordAllDisplays(old, image_url, save_path, all, now) ==
    [old EXCEPT !.last_url = Some(image_url),
                !.last_saved_path = Some(save_path),
                !.last_result = Some("Applied to all displays"),
                !.last_error = None,
                !.last_run = Some(now)]

\* a success record that keeps the error of the cloned record
SuccessRecordKeepsError(old, image_url, save_path, all, now) ==
    [old EXCEPT !.last_url = Some(image_url),
                !.last_saved_path = Some(save_path),
                !.last_result = Some(IF all THEN "Applied to all displays"
                                            ELSE "Applied to main display"),
                !.last_run = Some(now)]

\* a success record that leaves the time of the cloned record
SuccessRecordNoRun(old, image_url, save_path, all, now) ==
    [old EXCEPT !.last_url = Some(image_url),
                !.last_saved_path = Some(save_path),
                !.last_result = Some(IF all THEN "Applied to all displays"
                                            ELSE "Applied to main display"),
                !.last_error = None]

\* lib.rs 234-242
SuccessRecord(old, image_url, save_path, all, now) ==
    [old EXCEPT !.last_url = Some(image_url),
                !.last_saved_path = Some(save_path),
                !.last_result = Some(IF all THEN "Applied to all displays"
                                            ELSE "Applied to main display"),
                !.last_error = None,
                !.last_run = Some(now)]

\* a failure record that starts from an empty record
FailureRecordReset(old, err, now) ==
    [DefaultStatus EXCEPT !.last_error = Some(err), !.last_run = Some(now)]

\* lib.rs 361-362
FailureRecord(old, err, now) ==
    [old EXCEPT !.last_error = Some(err), !.last_run = Some(now)]

\* a `?` that returns Err: the resolution guard, if taken, is dropped
Fail(c, msg) ==
    /\ cyc' = [cyc EXCEPT ![c] = [IdleCycle EXCEPT !.trigger = cyc[c].trigger,
                                                   !.apply_all = cyc[c].apply_all,
                                                   !.born = cyc[c].born,
                                                   !.pc = AfterError(cyc[c].trigger),
                                                   !.ret = Some(Err(msg))]]
    /\ resLock' = IF resLock = CycT(c) THEN NoHolder ELSE resLock

\* a new perform_sync call
NewCycle(trigger, all) ==
    /\ nCycles < scope.cycles
    /\ nCycles' = nCycles + 1
    /\ cyc' = [cyc EXCEPT ![nCycles + 1] =
                  [IdleCycle EXCEPT !.pc = "metadata", !.trigger = trigger,
                                    !.apply_all = all, !.born = ticks]]

\* lib.rs 160-178
FetchMetadata(c) ==
    /\ cyc[c].pc = "metadata"
    /\ \E built \in scope.io, net \in scope.http, body \in scope.bodies :
         LET r == MetadataResult(net, body)
         IN IF ~built THEN Fail(c, "builder error")
            ELSE IF ~r.ok THEN Fail(c, r.val)
            ELSE /\ cyc' = [cyc EXCEPT ![c].pc = "lock_resolution",
                                       ![c].image_path = r.val]
                 /\ UNCHANGED resLock
    /\ UNCHANGED <<appVars, last_status, statusLock, storeVars, platform, fsVars,
                   clock, schedVars, nCycles, cmd, nCmds, scope>>

\* lib.rs 181-194, 206-220: the guard taken here lives to the end of the function
LockResolution(c) ==
    /\ cyc[c].pc = "lock_resolution"
    /\ resLock = NoHolder
    /\ resLock' = CycT(c)
    /\ LET modified_path == ModifiedPath(resolution, cyc[c].image_path)
       IN cyc' = [cyc EXCEPT ![c].pc = "create_dir",
                             ![c].image_url = ImageUrl(modified_path),
                             ![c].filename = Filename(modified_path)]
    /\ UNCHANGED <<appVars, last_status, statusLock, storeVars, platform, fsVars,
                   clock, schedVars, nCycles, cmd, nCmds, scope>>

\* lib.rs 196-201
CreateCacheDir(c) ==
    /\ cyc[c].pc = "create_dir"
    /\ \E located \in scope.io, created \in scope.io :
         IF ~located THEN Fail(c, "Failed to locate cache dir") /\ UNCHANGED cacheExists
         ELSE IF ~created /\ ~cacheExists THEN Fail(c, "create_dir_all error") /\ UNCHANGED cacheExists
         ELSE /\ cacheExists' = TRUE
              /\ cyc' = [cyc EXCEPT ![c].pc = "download"]
              /\ UNCHANGED resLock
    /\ UNCHANGED <<appVars, last_status, statusLock, storeVars, platform, cacheFiles,
                   wallpaper, clock, schedVars, nCycles, cmd, nCmds, scope>>

\* lib.rs 222-227
DownloadImage(c) ==
    /\ cyc[c].pc = "download"
    /\ \E net \in scope.http :
         LET r == DownloadResult(net)
         IN IF ~r.ok THEN Fail(c, r.val)
            ELSE /\ cyc' = [cyc EXCEPT ![c].pc = "write_file",
                                       ![c].bytes = r.val]
                 /\ UNCHANGED resLock
    /\ UNCHANGED <<appVars, last_status, statusLock, storeVars, platform, fsVars,
                   clock, schedVars, nCycles, cmd, nCmds, scope>>

\* lib.rs 229: std::fs::write creates or truncates cache_dir/filename; it fails
\* when the directory is gone or the path is the directory itself
WriteFile(c) ==
    /\ cyc[c].pc = "write_file"
    /\ \E written \in scope.io :
         IF ~written \/ ~cacheExists \/ cyc[c].filename = <<>>
         THEN Fail(c, "write error") /\ UNCHANGED cacheFiles
         ELSE /\ cacheFiles' = {f \in cacheFiles : f[1] # cyc[c].filename}
                                  \cup {<<cyc[c].filename, cyc[c].bytes>>}
              /\ cyc' = [cyc EXCEPT ![c].pc = "apply"]
              /\ UNCHANGED resLock
    /\ UNCHANGED <<appVars, last_status, statusLock, storeVars, platform, cacheExists,
                   wallpaper, clock, schedVars, nCycles, cmd, nCmds, scope>>

\* outcomes of running osascript: it cannot be spawned, it runs and sets the
\* picture, it runs and exits with an error
AppleScriptOutcomes == {"spawn_error", "applied", "script_error"}

\* lib.rs 130-157: on macOS only the spawn error of output() is returned,
\* elsewhere the function always fails
SetWallpaperResult(os, outcome) ==
    IF os = "macos"
    THEN IF outcome = "spawn_error" THEN Err("spawn error") ELSE Ok("")
    ELSE Err("Setting wallpaper is implemented for macOS only")

\* lib.rs 231
ApplyWallpaper(c) ==
    /\ cyc[c].pc = "apply"
    /\ \E outcome \in scope.script :
         LET r == SetWallpaperResult(platform, outcome)
         IN IF ~r.ok THEN Fail(c, r.val) /\ UNCHANGED wallpaper
            ELSE /\ wallpaper' = IF outcome = "applied"
                                 THEN Some([path |-> cyc[c].filename, all |-> cyc[c].apply_all,
                                            bytes |-> cyc[c].bytes])
                                 ELSE wallpaper
                 /\ cyc' = [cyc EXCEPT ![c].pc = "clone_status_lock"]
                 /\ UNCHANGED resLock
    /\ UNCHANGED <<appVars, last_status, statusLock, storeVars, platform, cacheExists,
                   cacheFiles, clock, schedVars, nCycles, cmd, nCmds, scope>>

\* lib.rs 233: last_status.lock()
CloneStatusLock(c) ==
    /\ cyc[c].pc = "clone_status_lock"
    /\ statusLock = NoHolder
    /\ statusLock' = CycT(c)
    /\ cyc' = [cyc EXCEPT ![c].pc = "clone_status"]
    /\ UNCHANGED <<appVars, resLock, last_status, storeVars, platform, fsVars,
                   clock, schedVars, nCycles, cmd, nCmds, scope>>

\* a clone whose guard lives on to the write of line 243
CloneStatusKeepsGuard(c) ==
    /\ cyc[c].pc = "clone_status"
    /\ statusLock = CycT(c)
    /\ cyc' = [cyc EXCEPT ![c].pc = "write_status_lock",
                          ![c].status = SuccessRecord(last_status, cyc[c].image_url,
                                                      SavePath(cyc[c].filename),
                                                      cyc[c].apply_all, clock)]
    /\ clock' = clock + 1
    /\ UNCHANGED <<appVars, resLock, last_status, statusLock, storeVars, platform, fsVars,
                   schedVars, nCycles, cmd, nCmds, scope>>

\* lib.rs 233-242: the clone, the temporary guard dropped, the local record
\* filled in
CloneStatus(c) ==
    /\ cyc[c].pc = "clone_status"
    /\ statusLock = CycT(c)
    /\ statusLock' = NoHolder
    /\ cyc' = [cyc EXCEPT ![c].pc = "write_status_lock",
                          ![c].status = SuccessRecord(last_status, cyc[c].image_url,
                                                      SavePath(cyc[c].filename),
                                                      cyc[c].apply_all, clock)]
    /\ clock' = clock + 1
    /\ UNCHANGED <<appVars, resLock, last_status, storeVars, platform, fsVars,
                   schedVars, nCycles, cmd, nCmds, scope>>

\* lib.rs 243: last_status.lock()
WriteStatusLock(c) ==
    /\ cyc[c].pc = "write_status_lock"
    /\ statusLock = NoHolder
    /\ statusLock' = CycT(c)
    /\ cyc' = [cyc EXCEPT ![c].pc = "write_status"]
    /\ UNCHANGED <<appVars, resLock, last_status, storeVars, platform, fsVars,
                   clock, schedVars, nCycles, cmd, nCmds, scope>>

\* lib.rs 243-246: the record replaced, Ok(status) returned, both guards dropped
WriteStatus(c) ==
    /\ cyc[c].pc = "write_status"
    /\ statusLock = CycT(c)
    /\ last_status' = cyc[c].status
    /\ statusLock' = NoHolder
    /\ resLock' = NoHolder
    /\ cyc' = [cyc EXCEPT ![c].pc = "done", ![c].ret = Some(Ok(cyc[c].status))]
    /\ UNCHANGED <<appVars, storeVars, platform, fsVars, clock, schedVars,
                   nCycles, cmd, nCmds, scope>>

\* lib.rs 360: last_status.lock() in the scheduler's closure
RecordFailureLock(c) ==
    /\ cyc[c].pc = "record_failure_lock"
    /\ statusLock = NoHolder
    /\ statusLock' = CycT(c)
    /\ cyc' = [cyc EXCEPT ![c].pc = "record_failure"]
    /\ UNCHANGED <<appVars, resLock, last_status, storeVars, platform, fsVars,
                   clock, schedVars, nCycles, cmd, nCmds, scope>>

\* lib.rs 361-363
RecordFailure(c) ==
    /\ cyc[c].pc = "record_failure"
    /\ statusLock = CycT(c)
    /\ last_status' = FailureRecord(last_status, cyc[c].ret[1].val, clock)
    /\ clock' = clock + 1
    /\ statusLock' = NoHolder
    /\ cyc' = [cyc EXCEPT ![c].pc = "done"]
    /\ UNCHANGED <<appVars, resLock, storeVars, platform, fsVars, schedVars,
                   nCycles, cmd, nCmds, scope>>


\* ------------------------------------------------------ setup and scheduler
\* lib.rs 320-331
LoadSettings ==
    /\ setup = "load_settings"
    /\ setup' = "spawn_initial"
    /\ \E opened \in scope.io :
         IF opened /\ IsSome(store) /\ store[1].valid
         THEN /\ auto_enabled' = store[1].auto_enabled
              /\ apply_all' = store[1].apply_all
              /\ resolution' = store[1].resolution
         ELSE UNCHANGED appVars
    /\ UNCHANGED <<resLock, last_status, statusLock, storeVars, platform, fsVars, clock,
                   sched, ticks, cyc, nCycles, cmd, nCmds, scope>>

\* lib.rs 337-343: the flag is read, the thread is spawned, whatever auto_enabled is
SpawnInitialSync ==
    /\ setup = "spawn_initial"
    /\ setup' = "spawn_scheduler"
    /\ NewCycle("startup", apply_all)
    /\ UNCHANGED <<appVars, resLock, last_status, statusLock, storeVars, platform, fsVars,
                   clock, sched, ticks, cmd, nCmds, scope>>

\* lib.rs 352: the scheduler task is spawned; the setup closure returns
SpawnScheduler ==
    /\ setup = "spawn_scheduler"
    /\ setup' = "done"
    /\ sched' = [sched EXCEPT !.pc = "check"]
    /\ UNCHANGED <<appVars, resLock, last_status, statusLock, storeVars, platform, fsVars,
                   clock, ticks, cyc, nCycles, cmd, nCmds, scope>>

\* a scheduler that does not look at the flag
TickSpawnsAlways(enabled) == TRUE

\* lib.rs 354: the condition of the if
TickSpawns(enabled) == enabled

\* lib.rs 355: the flag handed to the cycle of a tick
TickApplyAll(current, initial) == current

\* lib.rs 353-354: the top of the loop body
SchedCheck ==
    /\ sched.pc = "check"
    /\ sched' = [sched EXCEPT !.pc = IF TickSpawns(auto_enabled) THEN "load_apply_all" ELSE "sleep"]
    /\ UNCHANGED <<appVars, resLock, last_status, statusLock, storeVars, platform, fsVars,
                   clock, setup, ticks, cyc, nCycles, cmd, nCmds, scope>>

\* lib.rs 355-365: the flag is read and the blocking task is spawned
SchedSpawnSync ==
    /\ sched.pc = "load_apply_all"
    /\ sched' = [sched EXCEPT !.pc = "sleep"]
    /\ NewCycle("tick", TickApplyAll(apply_all, cyc[1].apply_all))
    /\ UNCHANGED <<appVars, resLock, last_status, statusLock, storeVars, platform, fsVars,
                   clock, setup, ticks, cmd, nCmds, scope>>

\* a loop that waits for the cycles in flight before it sleeps
SchedSleepAfterCycles ==
    /\ sched.pc = "sleep"
    /\ \A c \in Cycles : cyc[c].pc \in {"unused", "done"}
    /\ ticks < scope.ticks
    /\ ticks' = ticks + 1
    /\ sched' = [sched EXCEPT !.pc = "check"]
    /\ UNCHANGED <<appVars, resLock, last_status, statusLock, storeVars, platform, fsVars,
                   clock, setup, cyc, nCycles, cmd, nCmds, scope>>

\* lib.rs 367: the hour elapses
SchedSleep ==
    /\ sched.pc = "sleep"
    /\ ticks < scope.ticks
    /\ ticks' = ticks + 1
    /\ sched' = [sched EXCEPT !.pc = "check"]
    /\ UNCHANGED <<appVars, resLock, last_status, statusLock, storeVars, platform, fsVars,
                   clock, setup, cyc, nCycles, cmd, nCmds, scope>>

\* ----------------------------------------------------------------- commands
\* the front end invokes a command; each invocation runs on a thread of its own
Invoke(j, op, pc, e, a, r) ==
    /\ setup = "done"
    /\ j = nCmds + 1
    /\ nCmds < scope.cmds
    /\ nCmds' = j
    /\ cmd' = [cmd EXCEPT ![j] = [IdleCmd EXCEPT !.op = op, !.pc = pc, !.enabled = e,
                                                 !.apply_all = a, !.resolution = r,
                                                 !.alone = \A k \in 1..nCmds :
                                                               cmd[k].pc = "returned"]]
    /\ UNCHANGED <<appVars, resLock, last_status, statusLock, storeVars, platform, fsVars,
                   clock, schedVars, cyc, nCycles, scope>>

InvokeSetAutoSync(j) ==
    \E e \in BOOLEAN, a \in BOOLEAN : Invoke(j, "set_auto_sync", "store_enabled", e, a, "")

InvokeSetResolution(j) ==
    \E r \in Resolutions : Invoke(j, "set_resolution", "lock_resolution", FALSE, FALSE, r)

InvokeGetSettings(j) == Invoke(j, "get_settings", "load_enabled", FALSE, FALSE, "")

InvokeGetStatus(j) == Invoke(j, "get_status", "lock_status", FALSE, FALSE, "")

InvokeClearCache(j) == Invoke(j, "clear_cache", "locate", FALSE, FALSE, "")

\* lib.rs 53-56: sync_wallpaper runs perform_sync on the command's thread
SyncNow ==
    /\ setup = "done"
    /\ \E a \in BOOLEAN : NewCycle("syncnow", a)
    /\ UNCHANGED <<appVars, resLock, last_status, statusLock, storeVars, platform, fsVars,
                   clock, schedVars, cmd, nCmds, scope>>

At(j, op, pc) == cmd[j].op = op /\ cmd[j].pc = pc

\* a mutator that returns the failure of the store
MutatorResultChecked(opened, saved) == IF opened /\ saved THEN Ok("") ELSE Err("store error")

\* what a settings mutator returns once the store has been tried: `let _ =`
\* drops the results of set and save, a store that does not open is skipped
MutatorResult(opened, saved) == Ok("")

\* lib.rs 60
SasStoreEnabled(j) ==
    /\ At(j, "set_auto_sync", "store_enabled")
    /\ auto_enabled' = cmd[j].enabled
    /\ cmd' = [cmd EXCEPT ![j].pc = "store_apply_all"]
    /\ UNCHANGED <<apply_all, resolution, resLock, last_status, statusLock, storeVars,
                   platform, fsVars, clock, schedVars, cyc, nCycles, nCmds, scope>>

\* line 61 storing its argument into the other flag
SasStoreApplyAllWrongFlag(j) ==
    /\ At(j, "set_auto_sync", "store_apply_all")
    /\ auto_enabled' = cmd[j].apply_all
    /\ cmd' = [cmd EXCEPT ![j].pc = "open_store"]
    /\ UNCHANGED <<apply_all, resolution, resLock, last_status, statusLock, storeVars,
                   platform, fsVars, clock, schedVars, cyc, nCycles, nCmds, scope>>

\* lib.rs 61
SasStoreApplyAll(j) ==
    /\ At(j, "set_auto_sync", "store_apply_all")
    /\ apply_all' = cmd[j].apply_all
    /\ cmd' = [cmd EXCEPT ![j].pc = "open_store"]
    /\ UNCHANGED <<auto_enabled, resolution, resLock, last_status, statusLock, storeVars,
                   platform, fsVars, clock, schedVars, cyc, nCycles, nCmds, scope>>

\* lib.rs 64, 75
SasOpenStore(j) ==
    /\ At(j, "set_auto_sync", "open_store")
    /\ \E opened \in scope.io :
         cmd' = [cmd EXCEPT ![j] =
                  IF opened THEN [@ EXCEPT !.pc = "lock_resolution"]
                  ELSE [@ EXCEPT !.pc = "returned", !.ret = Some(MutatorResult(FALSE, FALSE))]]
    /\ UNCHANGED <<appVars, resLock, last_status, statusLock, storeVars, platform, fsVars,
                   clock, schedVars, cyc, nCycles, nCmds, scope>>

\* lib.rs 65-70: the guard lives to the end of the if-let block
SasLockResolution(j) ==
    /\ At(j, "set_auto_sync", "lock_resolution")
    /\ resLock = NoHolder
    /\ resLock' = CmdT(j)
    /\ cmd' = [cmd EXCEPT ![j].pc = "store_set", ![j].resolution = resolution]
    /\ UNCHANGED <<appVars, last_status, statusLock, storeVars, platform, fsVars,
                   clock, schedVars, cyc, nCycles, nCmds, scope>>

\* lib.rs 71
SasStoreSet(j) ==
    /\ At(j, "set_auto_sync", "store_set")
    /\ store' = Some(Settings(cmd[j].enabled, cmd[j].apply_all, cmd[j].resolution))
    /\ cmd' = [cmd EXCEPT ![j].pc = "store_save"]
    /\ UNCHANGED <<appVars, resLock, last_status, statusLock, disk, platform, fsVars,
                   clock, schedVars, cyc, nCycles, nCmds, scope>>

\* lib.rs 72-75: save() writes the store to disk or fails; the guard is dropped
SasStoreSave(j) ==
    /\ At(j, "set_auto_sync", "store_save")
    /\ \E saved \in scope.io :
         /\ disk' = IF saved THEN store ELSE disk
         /\ cmd' = [cmd EXCEPT ![j].pc = "returned", ![j].resolution = "",
                               ![j].ret = Some(MutatorResult(TRUE, saved))]
    /\ resLock' = NoHolder
    /\ UNCHANGED <<appVars, last_status, statusLock, store, platform, fsVars,
                   clock, schedVars, cyc, nCycles, nCmds, scope>>

\* lib.rs 98: resolution.lock()
SrLockResolution(j) ==
    /\ At(j, "set_resolution", "lock_resolution")
    /\ resLock = NoHolder
    /\ resLock' = CmdT(j)
    /\ cmd' = [cmd EXCEPT ![j].pc = "set_resolution"]
    /\ UNCHANGED <<appVars, last_status, statusLock, storeVars, platform, fsVars,
                   clock, schedVars, cyc, nCycles, nCmds, scope>>

\* lib.rs 98: the assignment; the temporary guard is dropped
SrSetResolution(j) ==
    /\ At(j, "set_resolution", "set_resolution")
    /\ resLock = CmdT(j)
    /\ resolution' = cmd[j].resolution
    /\ resLock' = NoHolder
    /\ cmd' = [cmd EXCEPT ![j].pc = "open_store"]
    /\ UNCHANGED <<auto_enabled, apply_all, last_status, statusLock, storeVars, platform,
                   fsVars, clock, schedVars, cyc, nCycles, nCmds, scope>>

\* lib.rs 101, 111
SrOpenStore(j) ==
    /\ At(j, "set_resolution", "open_store")
    /\ \E opened \in scope.io :
         cmd' = [cmd EXCEPT ![j] =
                  IF opened THEN [@ EXCEPT !.pc = "load_enabled"]
                  ELSE [@ EXCEPT !.pc = "returned", !.ret = Some(MutatorResult(FALSE, FALSE))]]
    /\ UNCHANGED <<appVars, resLock, last_status, statusLock, storeVars, platform, fsVars,
                   clock, schedVars, cyc, nCycles, nCmds, scope>>

\* lib.rs 103
SrLoadEnabled(j) ==
    /\ At(j, "set_resolution", "load_enabled")
    /\ cmd' = [cmd EXCEPT ![j].pc = "load_apply_all", ![j].enabled = auto_enabled]
    /\ UNCHANGED <<appVars, resLock, last_status, statusLock, storeVars, platform, fsVars,
                   clock, schedVars, cyc, nCycles, nCmds, scope>>

\* lib.rs 104
SrLoadApplyAll(j) ==
    /\ At(j, "set_resolution", "load_apply_all")
    /\ cmd' = [cmd EXCEPT ![j].pc = "store_set", ![j].apply_all = apply_all]
    /\ UNCHANGED <<appVars, resLock, last_status, statusLock, storeVars, platform, fsVars,
                   clock, schedVars, cyc, nCycles, nCmds, scope>>

\* lib.rs 107
SrStoreSet(j) ==
    /\ At(j, "set_resolution", "store_set")
    /\ store' = Some(Settings(cmd[j].enabled, cmd[j].apply_all, cmd[j].resolution))
    /\ cmd' = [cmd EXCEPT ![j].pc = "store_save"]
    /\ UNCHANGED <<appVars, resLock, last_status, statusLock, disk, platform, fsVars,
                   clock, schedVars, cyc, nCycles, nCmds, scope>>

\* lib.rs 108-111
SrStoreSave(j) ==
    /\ At(j, "set_resolution", "store_save")
    /\ \E saved \in scope.io :
         /\ disk' = IF saved THEN store ELSE disk
         /\ cmd' = [cmd EXCEPT ![j].pc = "returned", ![j].enabled = FALSE,
                               ![j].apply_all = FALSE,
                               ![j].ret = Some(MutatorResult(TRUE, saved))]
    /\ UNCHANGED <<appVars, resLock, last_status, statusLock, store, platform, fsVars,
                   clock, schedVars, cyc, nCycles, nCmds, scope>>

\* lib.rs 81
GsLoadEnabled(j) ==
    /\ At(j, "get_settings", "load_enabled")
    /\ cmd' = [cmd EXCEPT ![j].pc = "load_apply_all", ![j].enabled = auto_enabled]
    /\ UNCHANGED <<appVars, resLock, last_status, statusLock, storeVars, platform, fsVars,
                   clock, schedVars, cyc, nCycles, nCmds, scope>>

\* lib.rs 82
GsLoadApplyAll(j) ==
    /\ At(j, "get_settings", "load_apply_all")
    /\ cmd' = [cmd EXCEPT ![j].pc = "lock_resolution", ![j].apply_all = apply_all]
    /\ UNCHANGED <<appVars, resLock, last_status, statusLock, storeVars, platform, fsVars,
                   clock, schedVars, cyc, nCycles, nCmds, scope>>

\* lib.rs 83: resolution.lock()
GsLockResolution(j) ==
    /\ At(j, "get_settings", "lock_resolution")
    /\ resLock = NoHolder
    /\ resLock' = CmdT(j)
    /\ cmd' = [cmd EXCEPT ![j].pc = "clone_resolution"]
    /\ UNCHANGED <<appVars, last_status, statusLock, storeVars, platform, fsVars,
                   clock, schedVars, cyc, nCycles, nCmds, scope>>

\* lib.rs 80-84: the clone, the guard dropped, Ok(AppSettings) returned
GsCloneResolution(j) ==
    /\ At(j, "get_settings", "clone_resolution")
    /\ resLock = CmdT(j)
    /\ resLock' = NoHolder
    /\ cmd' = [cmd EXCEPT ![j].pc = "returned", ![j].enabled = FALSE,
                          ![j].apply_all = FALSE,
                          ![j].ret = Some(Ok(Settings(cmd[j].enabled, cmd[j].apply_all,
                                                      resolution)))]
    /\ UNCHANGED <<appVars, last_status, statusLock, storeVars, platform, fsVars,
                   clock, schedVars, cyc, nCycles, nCmds, scope>>

\* lib.rs 89-91: last_status.lock()
GetStatusLock(j) ==
    /\ At(j, "get_status", "lock_status")
    /\ statusLock = NoHolder
    /\ statusLock' = CmdT(j)
    /\ cmd' = [cmd EXCEPT ![j].pc = "clone_status"]
    /\ UNCHANGED <<appVars, resLock, last_status, storeVars, platform, fsVars,
                   clock, schedVars, cyc, nCycles, nCmds, scope>>

\* lib.rs 89-93: the clone returned, the guard dropped
GetStatusClone(j) ==
    /\ At(j, "get_status", "clone_status")
    /\ statusLock = CmdT(j)
    /\ statusLock' = NoHolder
    /\ cmd' = [cmd EXCEPT ![j].pc = "returned", ![j].ret = Some(Ok(last_status))]
    /\ UNCHANGED <<appVars, resLock, last_status, storeVars, platform, fsVars,
                   clock, schedVars, cyc, nCycles, nCmds, scope>>

\* lib.rs 116-127: the directory is located and looked for
CcCheck(j) ==
    /\ At(j, "clear_cache", "locate")
    /\ \E located \in scope.io :
         cmd' = [cmd EXCEPT ![j] =
                  IF ~located
                  THEN [@ EXCEPT !.pc = "returned", !.ret = Some(Err("Failed to locate cache dir"))]
                  ELSE IF cacheExists THEN [@ EXCEPT !.pc = "remove_dir"]
                  ELSE [@ EXCEPT !.pc = "returned",
                                 !.ret = Some(Ok("Cache directory does not exist"))]]
    /\ UNCHANGED <<appVars, resLock, last_status, statusLock, storeVars, platform, fsVars,
                   clock, schedVars, cyc, nCycles, nCmds, scope>>

\* a remove that leaves the files
CcRemoveDirKeepsFiles(j) ==
    /\ At(j, "clear_cache", "remove_dir")
    /\ \E removed \in scope.io :
         IF removed /\ cacheExists
         THEN /\ cacheExists' = FALSE
              /\ cacheFiles' = cacheFiles
              /\ cmd' = [cmd EXCEPT ![j].pc = "create_dir"]
         ELSE /\ cmd' = [cmd EXCEPT ![j].pc = "returned", ![j].ret = Some(Err("remove_dir_all error"))]
              /\ UNCHANGED <<cacheExists, cacheFiles>>
    /\ UNCHANGED <<appVars, resLock, last_status, statusLock, storeVars, platform, wallpaper,
                   clock, schedVars, cyc, nCycles, nCmds, scope>>

\* lib.rs 122: remove_dir_all; it also fails when the directory is already gone
CcRemoveDir(j) ==
    /\ At(j, "clear_cache", "remove_dir")
    /\ \E removed \in scope.io :
         IF removed /\ cacheExists
         THEN /\ cacheExists' = FALSE
              /\ cacheFiles' = {}
              /\ cmd' = [cmd EXCEPT ![j].pc = "create_dir"]
         ELSE /\ cmd' = [cmd EXCEPT ![j].pc = "returned", ![j].ret = Some(Err("remove_dir_all error"))]
              /\ UNCHANGED <<cacheExists, cacheFiles>>
    /\ UNCHANGED <<appVars, resLock, last_status, statusLock, storeVars, platform, wallpaper,
                   clock, schedVars, cyc, nCycles, nCmds, scope>>

\* lib.rs 123-124: create_dir_all
CcCreateDir(j) ==
    /\ At(j, "clear_cache", "create_dir")
    /\ \E created \in scope.io :
         IF created \/ cacheExists
         THEN /\ cacheExists' = TRUE
              /\ cmd' = [cmd EXCEPT ![j].pc = "returned",
                                    ![j].ret = Some(Ok("Cache cleared successfully"))]
         ELSE /\ cmd' = [cmd EXCEPT ![j].pc = "returned", ![j].ret = Some(Err("create_dir_all error"))]
              /\ UNCHANGED cacheExists
    /\ UNCHANGED <<appVars, resLock, last_status, statusLock, storeVars, platform, cacheFiles,
                   wallpaper, clock, schedVars, cyc, nCycles, nCmds, scope>>

SetAutoSync(j) ==
    \/ InvokeSetAutoSync(j)
    \/ SasStoreEnabled(j)
    \/ SasStoreApplyAll(j)
    \/ SasOpenStore(j)
    \/ SasLockResolution(j)
    \/ SasStoreSet(j)
    \/ SasStoreSave(j)

SetResolution(j) ==
    \/ InvokeSetResolution(j)
    \/ SrLockResolution(j)
    \/ SrSetResolution(j)
    \/ SrOpenStore(j)
    \/ SrLoadEnabled(j)
    \/ SrLoadApplyAll(j)
    \/ SrStoreSet(j)
    \/ SrStoreSave(j)

GetSettings(j) ==
    \/ InvokeGetSettings(j)
    \/ GsLoadEnabled(j)
    \/ GsLoadApplyAll(j)
    \/ GsLockResolution(j)
    \/ GsCloneResolution(j)

GetStatus(j) ==
    \/ InvokeGetStatus(j)
    \/ GetStatusLock(j)
    \/ GetStatusClone(j)

ClearCache(j) ==
    \/ InvokeClearCache(j)
    \/ CcCheck(j)
    \/ CcRemoveDir(j)
    \/ CcCreateDir(j)

Cycle(c) ==
    \/ FetchMetadata(c)
    \/ LockResolution(c)
    \/ CreateCacheDir(c)
    \/ DownloadImage(c)
    \/ WriteFile(c)
    \/ ApplyWallpaper(c)
    \/ CloneStatusLock(c)
    \/ CloneStatus(c)
    \/ WriteStatusLock(c)
    \/ WriteStatus(c)
    \/ RecordFailureLock(c)
    \/ RecordFailure(c)

Setup == LoadSettings \/ SpawnInitialSync \/ SpawnScheduler

Scheduler == SchedCheck \/ SchedSpawnSync \/ SchedSleep

\* every outcome of the environment
AllOutcomes == [http |-> HttpOutcomes, bodies |-> MetaBodies, io |-> BOOLEAN,
                script |-> AppleScriptOutcomes]

\* the network may time out; files, store and osascript work
NetOutcomes == [http |-> {"ok", "timeout"}, bodies |-> {[json |-> TRUE, url |-> Some(RawPath1)]},
                io |-> {TRUE}, script |-> {"applied"}]

Scope(cycles, nticks, cmds, env) ==
    [cycles |-> cycles, ticks |-> nticks, cmds |-> cmds, http |-> env.http,
     bodies |-> env.bodies, io |-> env.io, script |-> env.script]

\* the whole program
Init == Start(Scope(FullCycles, FullTicks, FullCmds, NetOutcomes),
              {None, Some(Settings(TRUE, TRUE, "1920x1080"))}, {"macos"}, {TRUE})

Next ==
    \/ Setup
    \/ Scheduler
    \/ SyncNow
    \/ \E c \in Cycles : Cycle(c)
    \/ \E j \in CmdThreads : SetAutoSync(j)
    \/ \E j \in CmdThreads : SetResolution(j)
    \/ \E j \in CmdThreads : GetSettings(j)
    \/ \E j \in CmdThreads : GetStatus(j)
    \/ \E j \in CmdThreads : ClearCache(j)

Spec == Init /\ [][Next]_vars

\* the sync engine: setup, scheduler, the cycles of every trigger and GetStatus
InitSync == Start(Scope(SyncCycles, SyncTicks, SyncCmds, AllOutcomes),
                  InitStores, {"macos", "other"}, BOOLEAN)

NextSync ==
    \/ Setup
    \/ Scheduler
    \/ SyncNow
    \/ \E c \in Cycles : Cycle(c)
    \/ \E j \in CmdThreads : GetStatus(j)

SpecSync == InitSync /\ [][NextSync]_vars

\* the settings commands, running concurrently, after setup
InitSettings == Start(Scope(1, 0, SettingsCmds, AllOutcomes), InitStores, {"macos"}, {TRUE})

NextSettings ==
    \/ Setup
    \/ \E j \in CmdThreads : SetAutoSync(j)
    \/ \E j \in CmdThreads : SetResolution(j)
    \/ \E j \in CmdThreads : GetSettings(j)

SpecSettings == InitSettings /\ [][NextSettings]_vars


\* the commands, running concurrently with each other and with the startup
\* sync, with a store and a file system that work
InitCommands == Start(Scope(1, 0, CommandCmds, NetOutcomes), InitStores, {"macos"}, {TRUE})

NextCommands ==
    \/ Setup
    \/ \E c \in Cycles : Cycle(c)
    \/ \E j \in CmdThreads : SetAutoSync(j)
    \/ \E j \in CmdThreads : SetResolution(j)
    \/ \E j \in CmdThreads : GetSettings(j)
    \/ \E j \in CmdThreads : GetStatus(j)
    \/ \E j \in CmdThreads : ClearCache(j)

SpecCommands == InitCommands /\ [][NextCommands]_vars

\* ClearCache, running concurrently with itself and with the startup sync,
\* with or without a cache directory at startup
InitCache == Start(Scope(1, 0, CommandCmds, AllOutcomes), {None}, {"macos"}, BOOLEAN)

NextCache ==
    \/ Setup
    \/ \E c \in Cycles : Cycle(c)
    \/ \E j \in CmdThreads : ClearCache(j)

SpecCache == InitCache /\ [][NextCache]_vars

\* the image resolver: the startup sync and SyncNow for every saved
\* resolution and every image path, with an environment that works
ResolverOutcomes == [http |-> {"ok"},
                     bodies |-> {[json |-> TRUE, url |-> Some(p)] : p \in RawPaths \cup {RawPath3}},
                     io |-> {TRUE}, script |-> {"applied"}]

ResolverStores == {None} \cup {Some(Settings(FALSE, FALSE, r)) : r \in {"UHD", "1920x1080", "original"}}

InitResolver == Start(Scope(SyncCycles, 0, 0, ResolverOutcomes), ResolverStores, {"macos"}, {TRUE})

NextResolver ==
    \/ Setup
    \/ SyncNow
    \/ \E c \in Cycles : Cycle(c)

SpecResolver == InitResolver /\ [][NextResolver]_vars

\* the scheduler and the cycles it and the startup start; the setup closure
\* and the scheduler task always get to run (the sleep of line 367 elapses),
\* a cycle may take for ever
InitTicks == Start(Scope(TickCycles, TickTicks, 0, NetOutcomes),
                   {Some(Settings(TRUE, TRUE, "UHD")), Some(Settings(FALSE, TRUE, "UHD"))},
                   {"macos"}, {TRUE})

NextTicks ==
    \/ Setup
    \/ Scheduler
    \/ \E c \in Cycles : Cycle(c)

SpecTicks == InitTicks /\ [][NextTicks]_vars /\ WF_vars(Setup) /\ WF_vars(Scheduler)

\* ------------------------------------------------------------------ claims
Started(c) == cyc[c].pc # "unused"
Done(c) == cyc[c].pc = "done"
Failed(c) == Done(c) /\ ~cyc[c].ret[1].ok
Succeeded(c) == Done(c) /\ cyc[c].ret[1].ok
\* the step completes cycle c
Completes(c) == cyc[c].pc # "done" /\ cyc'[c].pc = "done"
\* the step is the success write of cycle c (lib.rs 243)
SuccessWrite(c) == cyc[c].pc = "write_status" /\ cyc'[c].pc = "done"
\* the step is the failure write of the scheduler's closure for cycle c (lib.rs 361-362)
FailureWrite(c) == cyc[c].pc = "record_failure" /\ cyc'[c].pc = "done"
Mutators == {"set_auto_sync", "set_resolution"}
Returned(j) == cmd[j].pc = "returned"
\* the step is one of command j
StepOf(j) == cmd'[j] # cmd[j]
ResultString(all) == IF all THEN "Applied to all displays" ELSE "Applied to main display"

\* C1: every sync cycle that fails, whatever started it, has recorded its
\* error message and a time in the shared SyncStatus when it completes with
\* the error returned.
C1_FailureRecorded ==
    [][\A c \in Cycles :
          (Completes(c) /\ ~cyc'[c].ret[1].ok) =>
              /\ last_status'.last_error = Some(cyc'[c].ret[1].val)
              /\ IsSome(last_status'.last_run)]_vars

\* C2: lastUrl and lastSavedPath change only in the success write of a
\* cycle; no step of a failing cycle, and no failure write, changes them.
C2_FailurePreservesUrl ==
    [][(\/ last_status'.last_url # last_status.last_url
        \/ last_status'.last_saved_path # last_status.last_saved_path)
          => \E c \in Cycles : SuccessWrite(c) /\ cyc'[c].ret[1].ok]_vars

\* a failure has been recorded over the record of an earlier success
C2_Witness ==
    /\ IsSome(last_status.last_url)
    /\ IsSome(last_status.last_saved_path)
    /\ IsSome(last_status.last_error)
    /\ \E c \in Cycles : Failed(c) /\ cyc[c].trigger = "tick"
                         /\ last_status.last_error = Some(cyc[c].ret[1].val)

\* C3: the success write of a cycle leaves in SyncStatus that cycle's URL
\* and saved path, the result string of its applyAll argument, no error and
\* a time, and the cycle returns the record it wrote.
C3_SuccessRecord ==
    [][\A c \in Cycles :
          SuccessWrite(c) =>
              /\ last_status'.last_url = Some(cyc[c].image_url)
              /\ last_status'.last_saved_path = Some(SavePath(cyc[c].filename))
              /\ last_status'.last_result = Some(ResultString(cyc[c].apply_all))
              /\ last_status'.last_error = None
              /\ IsSome(last_status'.last_run)
              /\ cyc'[c].ret = Some(Ok(last_status'))]_vars

\* a cycle for the main display only has succeeded and its record is the status
C3_Witness ==
    \E c \in Cycles :
        /\ Succeeded(c)
        /\ ~cyc[c].apply_all
        /\ last_status = cyc[c].ret[1].val
        /\ last_status.last_result = Some("Applied to main display")

\* C4: SyncStatus changes only in the completion step of a cycle, and then
\* to that step's whole record: in a success write all five fields are the
\* writing cycle's own, in a failure write the error and the time are the
\* failing cycle's and the rest is the record that was there; GetStatus
\* returns the record as it is at its read.
C4_LastWriterWins ==
    [][/\ (last_status' # last_status) =>
             \E c \in Cycles :
                \/ /\ SuccessWrite(c)
                   /\ last_status' = [last_url |-> Some(cyc[c].image_url),
                                      last_saved_path |-> Some(SavePath(cyc[c].filename)),
                                      last_result |-> Some(ResultString(cyc[c].apply_all)),
                                      last_error |-> None,
                                      last_run |-> cyc[c].status.last_run]
                \/ /\ FailureWrite(c)
                   /\ last_status' = [last_status EXCEPT
                                          !.last_error = Some(cyc[c].ret[1].val),
                                          !.last_run = Some(clock)]
       /\ \A j \in CmdThreads :
             (cmd[j].op = "get_status" /\ ~Returned(j) /\ cmd'[j].pc = "returned")
                 => cmd'[j].ret = Some(Ok(last_status))]_vars

\* a cycle is between its clone and its write while the failure of another
\* cycle, recorded after the clone, is the status
C4_Witness ==
    \E c \in Cycles :
        /\ cyc[c].pc = "write_status"
        /\ IsSome(last_status.last_error)
        /\ last_status.last_run[1] > cyc[c].status.last_run[1]

\* C5: with a store that works, once a settings mutator has returned and
\* none is in progress, settings.json holds the in-memory settings.
C5_StoreMatchesMemory ==
    (/\ \E j \in CmdThreads : cmd[j].op \in Mutators /\ Returned(j)
     /\ \A j \in CmdThreads : cmd[j].op \in Mutators => Returned(j))
        => disk = Some(Settings(auto_enabled, apply_all, resolution))

\* C6: once setup has run, exactly one cycle has been started by the process
\* itself (startup sync or scheduler) before the first interval has elapsed.
C6_OneStartupCycle ==
    setup = "done" =>
        Cardinality({c \in Cycles : /\ Started(c)
                                    /\ cyc[c].trigger \in {"startup", "tick"}
                                    /\ cyc[c].born = 0}) = 1

\* C7: a tick starts a cycle exactly when auto_enabled is true at its check,
\* the cycle gets apply_all as it is when the tick reads it, and no step of
\* SetAutoSync starts a cycle, touches a cycle in flight or moves the scheduler.
C7_TickGatedByFlag ==
    [][/\ (sched.pc = "check" /\ sched'.pc # "check") =>
             /\ sched'.pc = (IF auto_enabled THEN "load_apply_all" ELSE "sleep")
             /\ nCycles' = nCycles
       /\ (sched.pc = "load_apply_all" /\ sched'.pc # "load_apply_all") =>
             /\ nCycles' = nCycles + 1
             /\ cyc'[nCycles'].trigger = "tick"
             /\ cyc'[nCycles'].apply_all = apply_all
       /\ \A j \in CmdThreads :
             (StepOf(j) /\ cmd'[j].op = "set_auto_sync") =>
                 /\ nCycles' = nCycles
                 /\ cyc' = cyc
                 /\ sched' = sched
                 /\ ticks' = ticks]_vars

\* auto sync was off at the first tick, SetAutoSync(true, true) returned, and
\* the tick after the first interval started a cycle for all displays
C7_Witness ==
    /\ nCycles = 2
    /\ cyc[2].trigger = "tick"
    /\ cyc[2].born = 1
    /\ cyc[2].apply_all
    /\ ~cyc[1].apply_all
    /\ \E j \in CmdThreads : /\ cmd[j].op = "set_auto_sync" /\ Returned(j)
                             /\ cmd[j].enabled /\ cmd[j].apply_all

\* C8: a step of SetAutoSync changes nothing of the settings but
\* auto_enabled (to its argument, at line 60) and apply_all (to its argument,
\* at line 61); a step of SetResolution changes nothing but the resolution
\* (to its argument, at line 98); a step of a sync cycle, GetSettings,
\* GetStatus or ClearCache changes none of the three (only the load of the
\* saved settings in setup does); and a GetSettings that runs after a
\* SetAutoSync(e, a) has returned, with no other command in progress, returns
\* e, a and the resolution, which is the one from before the SetAutoSync.
C8_SettingsFrame ==
    [][/\ \A j \in CmdThreads :
             (StepOf(j) /\ cmd'[j].op = "set_auto_sync") =>
                 /\ resolution' = resolution
                 /\ auto_enabled' = (IF cmd[j].pc = "store_enabled" THEN cmd[j].enabled
                                     ELSE auto_enabled)
                 /\ apply_all' = (IF cmd[j].pc = "store_apply_all" THEN cmd[j].apply_all
                                  ELSE apply_all)
       /\ \A j \in CmdThreads :
             (StepOf(j) /\ cmd'[j].op = "set_resolution") =>
                 /\ auto_enabled' = auto_enabled
                 /\ apply_all' = apply_all
                 /\ resolution' = (IF cmd[j].pc = "set_resolution" THEN cmd[j].resolution
                                   ELSE resolution)
       /\ (setup # "load_settings" /\ \A j \in CmdThreads : ~(StepOf(j) /\ cmd'[j].op \in Mutators))
             => UNCHANGED <<auto_enabled, apply_all, resolution>>
       /\ \A j \in CmdThreads :
             (/\ cmd[j].op = "get_settings" /\ ~Returned(j) /\ cmd'[j].pc = "returned"
              /\ cmd[j].alone /\ nCmds = j /\ j > 1)
                 => /\ cmd'[j].ret = Some(Ok(Settings(auto_enabled, apply_all, resolution)))
                    /\ (cmd[j - 1].op = "set_auto_sync" /\ cmd[j - 1].alone) =>
                          cmd'[j].ret = Some(Ok(Settings(cmd[j - 1].enabled,
                                                         cmd[j - 1].apply_all,
                                                         resolution)))]_vars

\* SetAutoSync(false, true) has returned, then GetSettings has returned
\* false, true and the resolution loaded at startup, and the startup sync is done
C8_Witness ==
    /\ nCmds = 2
    /\ cmd[1].op = "set_auto_sync" /\ Returned(1) /\ ~cmd[1].enabled /\ cmd[1].apply_all
    /\ cmd[2].op = "get_settings" /\ Returned(2) /\ cmd[2].alone
    /\ cmd[2].ret = Some(Ok(Settings(FALSE, TRUE, "1920x1080")))
    /\ Done(1)

\* C9: a settings mutator returns Ok whether or not the store opened and
\* saved, and a mutator that ran with no other command in progress has left
\* its arguments in memory.
C9_PersistenceBestEffort ==
    \A j \in CmdThreads :
        (cmd[j].op \in Mutators /\ Returned(j)) =>
            /\ cmd[j].ret = Some(Ok(""))
            /\ (cmd[j].alone /\ nCmds = j /\ cmd[j].op = "set_auto_sync") =>
                  /\ auto_enabled = cmd[j].enabled
                  /\ apply_all = cmd[j].apply_all
            /\ (cmd[j].alone /\ nCmds = j /\ cmd[j].op = "set_resolution") =>
                  resolution = cmd[j].resolution

\* SetAutoSync(false, true) returned Ok, memory has the request and nothing
\* was persisted
C9_Witness ==
    /\ nCmds = 1
    /\ Returned(1)
    /\ cmd[1].op = "set_auto_sync"
    /\ ~cmd[1].enabled /\ cmd[1].apply_all
    /\ cmd[1].ret = Some(Ok(""))
    /\ ~auto_enabled /\ apply_all
    /\ disk = None

\* C10: a cycle whose image download was answered with a non-success HTTP
\* status does not return Ok (it records no success).
C10_BadStatusFails ==
    \A c \in Cycles : cyc[c].bytes = "error_page" => ~Succeeded(c)

\* C11: a cycle returns Ok (and has recorded "Applied to ...") only when the
\* applicator has set the desktop picture: after a success the picture is set.
C11_AppliedMeansApplied ==
    \A c \in Cycles : Succeeded(c) => IsSome(wallpaper)

\* the step is the return of command j
Returns(j) == cmd[j].pc # "returned" /\ cmd'[j].pc = "returned"

\* C12: a ClearCache that returns "Cache directory does not exist" found no
\* directory and leaves none; a ClearCache that found the directory returns
\* "Cache cleared successfully" unless the file system fails, and leaves the
\* directory existing, and empty when nothing recreated it since the removal.
C12_ClearCache ==
    [][\A j \in CmdThreads :
          (cmd[j].op = "clear_cache" /\ Returns(j) /\ cmd'[j].ret[1].ok) =>
              IF cmd[j].pc = "locate"
              THEN /\ cmd'[j].ret = Some(Ok("Cache directory does not exist"))
                   /\ ~cacheExists /\ ~cacheExists'
                   /\ cacheFiles' = {}
              ELSE /\ cmd'[j].ret = Some(Ok("Cache cleared successfully"))
                   /\ cacheExists'
                   /\ ~cacheExists => cacheFiles' = {}]_vars

\* the first ClearCache found no directory, the startup sync then wrote its
\* image, and the second ClearCache cleared the directory
C12_Witness ==
    /\ nCmds = 2
    /\ cmd[1].op = "clear_cache" /\ cmd[1].ret = Some(Ok("Cache directory does not exist"))
    /\ cmd[2].op = "clear_cache" /\ cmd[2].ret = Some(Ok("Cache cleared successfully"))
    /\ cmd[2].alone
    /\ Succeeded(1)
    /\ cacheExists
    /\ cacheFiles = {}

\* the text of s after its last '/'
RECURSIVE LastSegment(_)
LastSegment(s) ==
    IF s = <<>> \/ s[Len(s)] = "/" THEN <<>>
    ELSE LastSegment(SubSeq(s, 1, Len(s) - 1)) \o <<s[Len(s)]>>

\* the path of an image URL
PathOf(url) == SubSeq(url, Len(Host) + 1, Len(url))

\* C13: the cache filename of a cycle is the text after "id=" up to the next
\* '&' without a leading "OHR."; for a path without "id=" it is the last path
\* segment of the URL, and the default filename only when that segment is empty.
C13_Filename ==
    \A c \in Cycles :
        cyc[c].image_url # <<>> =>
            LET path == PathOf(cyc[c].image_url)
                p == FindFrom(path, IdKey, 1)
            IN cyc[c].filename =
                  IF p > 0
                  THEN StripOhr(SplitAmpFirst(SubSeq(path, p + Len(IdKey), Len(path))))
                  ELSE IF LastSegment(cyc[c].image_url) # <<>>
                       THEN LastSegment(cyc[c].image_url)
                       ELSE DefaultFilename

\* t is a resolution token: '_', digits, 'x', digits, ".jpg"
IsToken(t) ==
    /\ Len(t) >= 8
    /\ t[1] = "_"
    /\ SubSeq(t, Len(t) - 3, Len(t)) = JpgExt
    /\ \E k \in 3..(Len(t) - 5) :
          /\ t[k] = "x"
          /\ \A i \in 2..(k - 1) : t[i] \in Digits
          /\ \A i \in (k + 1)..(Len(t) - 4) : t[i] \in Digits

\* the pieces of path s that are tokens: <<position, length>>
Tokens(s) == {pn \in (1..Len(s)) \X (8..Len(s)) :
                 /\ pn[1] + pn[2] - 1 <= Len(s)
                 /\ IsToken(SubSeq(s, pn[1], pn[1] + pn[2] - 1))}

\* out is s with one of its tokens replaced by tok
Rewritten(s, tok, out) ==
    \E pn \in Tokens(s) :
        out = SubSeq(s, 1, pn[1] - 1) \o tok \o SubSeq(s, pn[1] + pn[2], Len(s))

\* C14: the path a cycle resolves is the raw path with its resolution token
\* replaced by "_UHD.jpg" when the resolution is UHD and by "_1920x1080.jpg"
\* when it is 1920x1080, and the raw path itself for any other resolution
\* or when it has no token; two cycles with the same raw path and resolution
\* get the same URL and the same filename.
C14_ResolutionRewrite ==
    /\ \A c \in Cycles :
          cyc[c].image_url # <<>> =>
              LET raw == cyc[c].image_path
                  out == PathOf(cyc[c].image_url)
              IN /\ SubSeq(cyc[c].image_url, 1, Len(Host)) = Host
                 /\ (resolution = "UHD" /\ Tokens(raw) # {}) => Rewritten(raw, UHDToken, out)
                 /\ (resolution = "1920x1080" /\ Tokens(raw) # {}) => Rewritten(raw, FHDToken, out)
                 /\ (resolution \notin {"UHD", "1920x1080"} \/ Tokens(raw) = {}) => out = raw
    /\ \A c, d \in Cycles :
          (cyc[c].image_url # <<>> /\ cyc[d].image_url # <<>>
           /\ cyc[c].image_path = cyc[d].image_path) =>
              /\ cyc[c].image_url = cyc[d].image_url
              /\ cyc[c].filename = cyc[d].filename

\* with resolution UHD two cycles have resolved /az/Foo_1366x768.jpg to
\* https://www.bing.com/az/Foo_UHD.jpg
C14_Witness ==
    /\ resolution = "UHD"
    /\ \A c \in {1, 2} :
          /\ Succeeded(c)
          /\ cyc[c].image_path = RawPath2
          /\ cyc[c].image_url = Host \o <<"/","a","z","/","F","o","o">> \o UHDToken

\* the steps of a cycle that create the cache directory, download the image,
\* write the file and run osascript
CycleIO == {"create_dir", "download", "write_file", "apply"}
\* the image download, the file write and the wallpaper apply
TransferIO == {"download", "write_file", "apply"}
\* the steps of a mutator that write and save the settings store
StoreIO == {"store_set", "store_save"}

\* C15: a cycle that is about to do file, network or osascript I/O holds
\* neither lock, and a command that is about to write or save the settings
\* store holds neither lock.
C15_NoLockAcrossIO ==
    /\ \A c \in Cycles :
          cyc[c].pc \in CycleIO => (resLock # CycT(c) /\ statusLock # CycT(c))
    /\ \A j \in CmdThreads :
          cmd[j].pc \in StoreIO => (resLock # CmdT(j) /\ statusLock # CmdT(j))

\* C16: cycles are not serialised: no cycle is kept waiting for a lock by
\* another cycle that is in its image download, file write or wallpaper apply.
C16_CyclesNotSerialized ==
    \A c, d \in Cycles :
        ~(/\ c # d
          /\ cyc[c].pc = "lock_resolution"
          /\ resLock = CycT(d)
          /\ cyc[d].pc \in TransferIO)

\* the cycles started by the tick after t intervals
TickCyclesAt(t) == {c \in Cycles : Started(c) /\ cyc[c].trigger = "tick" /\ cyc[c].born = t}

\* C17: the scheduler reaches every tick, whether the cycles started before
\* have failed, are still running or never end; no tick starts more than one
\* cycle, and a tick that has gone to sleep has started one cycle if auto sync
\* is on and none if it is off, so nothing is run again between two ticks.
C17_SchedulerKeepsTicking ==
    /\ [](\A t \in 0..scope.ticks : Cardinality(TickCyclesAt(t)) <= 1)
    /\ [](sched.pc = "sleep" =>
             Cardinality(TickCyclesAt(ticks)) = (IF auto_enabled THEN 1 ELSE 0))
    /\ <>(ticks = scope.ticks /\ sched.pc = "sleep")

\* the last tick has started its cycle while the startup sync is still in its
\* download and the cycle of the first tick has failed
C17_Witness ==
    /\ ticks = scope.ticks
    /\ sched.pc = "sleep"
    /\ cyc[1].trigger = "startup" /\ cyc[1].pc = "download"
    /\ \E c \in TickCyclesAt(0) : Failed(c)
    /\ \E c \in TickCyclesAt(ticks) : cyc[c].pc = "metadata"

\* the threads that take locks
Threads == {CycT(c) : c \in Cycles} \cup {CmdT(j) : j \in CmdThreads}
\* thread t is at a resolution.lock() (lib.rs 65, 83, 98, 181)
WantsRes(t) == IF t[1] = "cycle" THEN cyc[t[2]].pc = "lock_resolution"
               ELSE cmd[t[2]].pc = "lock_resolution"
\* thread t is at a last_status.lock() (lib.rs 89, 233, 243, 360)
WantsStatus(t) == IF t[1] = "cycle"
                  THEN cyc[t[2]].pc \in {"clone_status_lock", "write_status_lock",
                                         "record_failure_lock"}
                  ELSE cmd[t[2]].pc = "lock_status"
\* thread t has come to its end
Ended(t) == IF t[1] = "cycle" THEN cyc[t[2]].pc = "done" ELSE cmd[t[2]].pc = "returned"

\* C18: no thread waits for a lock it holds; a thread that holds the
\* SyncStatus lock never goes for the resolution lock, so the two locks are
\* only ever nested resolution first; no thread ends holding a lock; and no
\* two threads wait for each other's lock.
C18_NoDeadlock ==
    /\ \A t \in Threads :
          /\ WantsRes(t) => resLock # t
          /\ WantsStatus(t) => statusLock # t
          /\ statusLock = t => ~WantsRes(t)
          /\ Ended(t) => (resLock # t /\ statusLock # t)
    /\ \A t, u \in Threads :
          ~(/\ resLock = t /\ WantsStatus(t)
            /\ statusLock = u /\ WantsRes(u))
    /\ resLock \in Threads \cup {NoHolder}
    /\ statusLock \in Threads \cup {NoHolder}

\* a cycle holds both locks while a failed tick cycle waits for the
\* SyncStatus lock and a command waits for the resolution lock
C18_Witness ==
    \E c, d \in Cycles, j \in CmdThreads :
        /\ resLock = CycT(c)
        /\ statusLock = CycT(c)
        /\ cyc[d].pc = "record_failure_lock"
        /\ cmd[j].pc = "lock_resolution"

\* C19: with nothing saved in the store and no mutator invoked, GetSettings
\* returns the defaults of AppSettings: true, true, "UHD".
C19_DefaultsAtStartup ==
    \A j \in CmdThreads :
        (/\ cmd[j].op = "get_settings"
         /\ Returned(j)
         /\ store = None
         /\ \A k \in CmdThreads : cmd[k].op \notin Mutators)
            => cmd[j].ret = Some(Ok(Settings(TRUE, TRUE, "UHD")))

\* lastUrl, lastSavedPath and lastResult of a record are all empty or all set
AllOrNone(st) ==
    /\ IsSome(st.last_url) <=> IsSome(st.last_saved_path)
    /\ IsSome(st.last_url) <=> IsSome(st.last_result)

\* C20: in every state lastUrl, lastSavedPath and lastResult of SyncStatus
\* are all empty or all set and lastRun is set whenever lastError or lastUrl
\* is; no step clears lastUrl, lastSavedPath, lastResult or lastRun.
C20_StatusInvariants ==
    /\ [](/\ AllOrNone(last_status)
          /\ (IsSome(last_status.last_error) \/ IsSome(last_status.last_url))
                 => IsSome(last_status.last_run))
    /\ [][/\ IsSome(last_status.last_url) => IsSome(last_status'.last_url)
          /\ IsSome(last_status.last_saved_path) => IsSome(last_status'.last_saved_path)
          /\ IsSome(last_status.last_result) => IsSome(last_status'.last_result)
          /\ IsSome(last_status.last_run) => IsSome(last_status'.last_run)]_vars

\* a success has been written over the failure a tick cycle had recorded
C20_Witness ==
    /\ IsSome(last_status.last_url)
    /\ last_status.last_error = None
    /\ \E c, d \in Cycles :
          /\ Failed(c) /\ cyc[c].trigger = "tick"
          /\ Succeeded(d)
          /\ last_status = cyc[d].ret[1].val
          /\ last_status.last_run[1] > 1

====
